---- MODULE Spec2Model ----
(***************************************************************************)
(* Chunk-level precision / recall / F1 over BIO tag sequences:             *)
(* calculateF1 and its nested get_entities, from                           *)
(* 12.ner/SequenceLabelingBiLSTM.ipynb.                                     *)
(*                                                                         *)
(* A Python string is a sequence of one-character strings, so that         *)
(* tag.split("-") is computed and not assumed.  Indices s_idx and w_idx are *)
(* 0-based as in the code; sequences are read at index + 1.  Python floats  *)
(* are exact rationals <<numerator, denominator>> in lowest terms.          *)
(***************************************************************************)
EXTENDS Integers, Sequences, FiniteSets, TLC

VARIABLES gold_sequences, predicted_sequences, pc, call, sequences, ents,
          s_idx, w_idx, start, startCat, cat, gold_ents, pred_ents,
          g_set, p_set, precision, recall, F1, ieee, result, session, other,
          epoch

vars == <<gold_sequences, predicted_sequences, pc, call, sequences, ents,
          s_idx, w_idx, start, startCat, cat, gold_ents, pred_ents,
          g_set, p_set, precision, recall, F1, ieee, result, session, other,
          epoch>>

\* What lies outside the frame of one calculateF1 call.
aux == <<session, other, epoch>>

(* ------------------------------ bounds -------------------------------- *)
MaxSents == 2
MaxTokens == 3
MaxPairTokens == 2
MaxCalls == 3
MaxValSents == 2
MaxValTokens == 3

(* ------------------------------ values -------------------------------- *)
\* Python's None for the integer local start.
None == -1
\* Python's None for the string local startCat; no string of characters equals it.
NoneCat == <<"None">>
\* A local that has not been assigned yet.
Unbound == <<"unbound">>

PER == <<"P", "E", "R">>
ORG == <<"O", "R", "G">>
GEO == <<"g", "e", "o">>
LOC == <<"l", "o", "c">>
GEO_LOC == GEO \o <<"-">> \o LOC

O == <<"O">>
X == <<"X">>
B(category) == <<"B", "-">> \o category
I(category) == <<"I", "-">> \o category
X_PER == <<"X", "-">> \o PER

Range(s) == {s[i] : i \in 1..Len(s)}

(* ---------------------------- arithmetic ------------------------------ *)
RECURSIVE GCD(_, _)
GCD(a, b) == IF b = 0 THEN a ELSE GCD(b, a % b)

\* The float n / d, d # 0, n >= 0, d > 0.
Frac(n, d) == LET g == GCD(n, d) IN <<n \div g, d \div g>>

Zero == <<0, 1>>
One == <<1, 1>>

FAdd(a, b) == Frac(a[1] * b[2] + b[1] * a[2], a[2] * b[2])
FMul(a, b) == Frac(a[1] * b[1], a[2] * b[2])
\* a / b for b # 0
FQuot(a, b) == Frac(a[1] * b[2], a[2] * b[1])
FPositive(a) == a[1] > 0

(* ------------------------- IEEE-754 doubles --------------------------- *)
(* A Python float is a binary64: a significand of at most 53 bits times a  *)
(* power of two.  The significand does not fit a machine integer of the    *)
(* checker, so a natural number is a little-endian sequence of limbs in    *)
(* base 2^14 with no leading zero limb (0 is << >>), and a non-negative    *)
(* double is <<m, e>>, of value m * 2^e, with m odd (0.0 is <<<< >>, 0>>). *)
(* The metrics are between 2^-60 and 4, so exponents stay in range and    *)
(* no subnormal arises.                                                    *)
LimbBits == 14
Base == 2 ^ LimbBits
Precision53 == 53

\* limb i of a, 0 above its top limb
Limb(a, i) == IF i >= 1 /\ i <= Len(a) THEN a[i] ELSE 0

\* a without its leading zero limbs
BigNorm(a) ==
    LET limbs == SubSeq(a, 1, Len(a))
    IN IF \A i \in 1..Len(limbs) : limbs[i] = 0 THEN <<>>
       ELSE SubSeq(limbs, 1, CHOOSE i \in 1..Len(limbs) :
                       limbs[i] # 0 /\ \A j \in (i + 1)..Len(limbs) : limbs[j] = 0)

\* a non-negative integer below Base^3
BigOf(n) == BigNorm(<<n % Base, (n \div Base) % Base, n \div (Base * Base)>>)

\* a + b: the sum of each pair of limbs, and a carry into limb i when a limb
\* below it overflows and every limb between the two is full
BigAdd(a, b) ==
    IF a = <<>> THEN BigNorm(b)
    ELSE IF b = <<>> THEN BigNorm(a)
    ELSE LET n == (IF Len(a) > Len(b) THEN Len(a) ELSE Len(b)) + 1
             sum(i) == Limb(a, i) + Limb(b, i)
             carry(i) == \E j \in 1..(i - 1) :
                             /\ sum(j) >= Base
                             /\ \A k \in (j + 1)..(i - 1) : sum(k) = Base - 1
         IN BigNorm([i \in 1..n |-> (sum(i) + IF carry(i) THEN 1 ELSE 0) % Base])

\* a - b for a >= b: a borrow from limb i when a limb below it falls short and
\* every limb between the two is level
BigSub(a, b) ==
    IF b = <<>> THEN a
    ELSE LET borrow(i) == \E j \in 1..(i - 1) :
                              /\ Limb(a, j) < Limb(b, j)
                              /\ \A k \in (j + 1)..(i - 1) : Limb(a, k) = Limb(b, k)
         IN BigNorm([i \in 1..Len(a) |->
                (Limb(a, i) - Limb(b, i) - (IF borrow(i) THEN 1 ELSE 0) + Base) % Base])

\* -1, 0 or 1 as a < b, a = b or a > b
BigCmp(a, b) ==
    IF Len(a) < Len(b) THEN -1
    ELSE IF Len(a) > Len(b) THEN 1
    ELSE IF a = b THEN 0
    ELSE LET i == CHOOSE i \in 1..Len(a) :
                      a[i] # b[i] /\ \A j \in (i + 1)..Len(a) : a[j] = b[j]
         IN IF a[i] < b[i] THEN -1 ELSE 1

\* a * d for a limb d: the low limbs of the products plus their high limbs,
\* one place up
BigMulSmall(a, d) ==
    IF a = <<>> \/ d = 0 THEN <<>>
    ELSE BigAdd([i \in 1..Len(a) |-> (a[i] * d) % Base],
                <<0>> \o [i \in 1..Len(a) |-> (a[i] * d) \div Base])

\* a * b for a of at most four limbs, as a significand is: the sum of the limb
\* products of each place, split into three limbs
BigMul(a, b) ==
    IF a = <<>> \/ b = <<>> THEN <<>>
    ELSE LET n == Len(b) + 3
             place == [k \in 1..n |->
                          Limb(a, 1) * Limb(b, k) + Limb(a, 2) * Limb(b, k - 1)
                          + Limb(a, 3) * Limb(b, k - 2) + Limb(a, 4) * Limb(b, k - 3)]
         IN BigAdd(BigAdd([k \in 1..n |-> place[k] % Base],
                          <<0>> \o [k \in 1..n |-> (place[k] \div Base) % Base]),
                   <<0, 0>> \o [k \in 1..n |-> place[k] \div (Base * Base)])

\* a * 2^s
BigShl(a, s) ==
    BigNorm([k \in 1..(s \div LimbBits) |-> 0] \o BigMulSmall(a, 2 ^ (s % LimbBits)))

\* a div 2^s
BigShr(a, s) ==
    LET n == s \div LimbBits
        low == 2 ^ (s % LimbBits)
    IN BigNorm([i \in 1..(Len(a) - n) |->
                   (Limb(a, i + n) \div low) + (Limb(a, i + n + 1) % low) * (Base \div low)])

\* the number of bits of a limb n > 0
SmallBitLen(n) == CHOOSE k \in 1..LimbBits : 2 ^ (k - 1) <= n /\ n < 2 ^ k

BigBitLen(a) ==
    IF a = <<>> THEN 0 ELSE LimbBits * (Len(a) - 1) + SmallBitLen(a[Len(a)])

BigOdd(a) == a # <<>> /\ a[1] % 2 = 1

\* The largest limb d with b * d <= a, for a < b * Base and the top limb of b
\* at least Base / 2: the quotient of the two top limbs of a by the top limb
\* of b is d or a little more
EstimateLimb(a, b) ==
    LET n == Len(b)
        q == (Limb(a, n + 1) * Base + Limb(a, n)) \div b[n]
    IN IF q >= Base THEN Base - 1 ELSE q

RECURSIVE QuotientLimb(_, _, _)
QuotientLimb(a, b, d) ==
    IF BigCmp(BigMulSmall(b, d), a) <= 0 THEN d ELSE QuotientLimb(a, b, d - 1)

\* <<a div b, a mod b>> for b as above: long division in base Base, from the top
\* limb of a down, with the quotient q and the remainder r of the limbs above
RECURSIVE BigDivModLimbs(_, _, _, _)
BigDivModLimbs(a, b, q, r) ==
    IF a = <<>> THEN <<q, r>>
    ELSE LET r1 == BigNorm(<<a[Len(a)]>> \o r)
             d == QuotientLimb(r1, b, EstimateLimb(r1, b))
         IN IF BigCmp(r1, b) < 0
            THEN BigDivModLimbs(SubSeq(a, 1, Len(a) - 1), b, <<0>> \o q, r1)
            ELSE BigDivModLimbs(SubSeq(a, 1, Len(a) - 1), b, <<d>> \o q,
                                BigSub(r1, BigMulSmall(b, d)))

\* <<a div b, a mod b>> for b # 0, both scaled first to bring the top limb of
\* b to Base / 2 or more.  The top limbs of a, one fewer than b has, are the
\* first remainder.
BigDivMod(a, b) ==
    IF Len(a) < Len(b) THEN <<<<>>, a>>
    ELSE LET s == LimbBits - SmallBitLen(b[Len(b)])
             num == BigShl(a, s)
             den == BigShl(b, s)
             low == Len(num) - (Len(den) - 1)
             qr == BigDivModLimbs(SubSeq(num, 1, low), den, <<>>,
                                  SubSeq(num, low + 1, Len(num)))
         IN <<BigNorm(qr[1]), BigShr(qr[2], s)>>

\* the number of zero bits below the lowest one bit of a limb n > 0
TrailingZeros(n) ==
    CHOOSE k \in 0..(LimbBits - 1) : n % (2 ^ k) = 0 /\ (n \div (2 ^ k)) % 2 = 1

\* The same value m * 2^e with m odd.
RECURSIVE Canon(_, _)
Canon(m, e) ==
    IF m = <<>> THEN <<<<>>, 0>>
    ELSE IF m[1] = 0 THEN Canon(Tail(m), e + LimbBits)
    ELSE <<BigShr(m, TrailingZeros(m[1])), e + TrailingZeros(m[1])>>

\* The double nearest to m * 2^e, ties to the even significand.
Round53(m, e) ==
    LET n == BigBitLen(m)
    IN IF n <= Precision53 THEN Canon(m, e)
       ELSE LET s == n - Precision53
                q == BigShr(m, s)
                rem == BigSub(m, BigShl(q, s))
                c == BigCmp(rem, BigShl(<<1>>, s - 1))
                up == c > 0 \/ (c = 0 /\ BigOdd(q))
            IN Canon(IF up THEN BigAdd(q, <<1>>) ELSE q, e + s)

DZero == <<<<>>, 0>>
\* float(n) for a small integer n >= 0
DFromInt(n) == Canon(BigOf(n), 0)

\* a * b
DMul(a, b) == Round53(BigMul(a[1], b[1]), a[2] + b[2])

\* a + b
DAdd(a, b) ==
    LET e == IF a[2] < b[2] THEN a[2] ELSE b[2]
    IN Round53(BigAdd(BigShl(a[1], a[2] - e), BigShl(b[1], b[2] - e)), e)

\* a / b for b # 0: the quotient to 55 bits or more, and a sticky bit below it
DDiv(a, b) ==
    IF a[1] = <<>> THEN DZero
    ELSE LET t == Precision53 + 3 + BigBitLen(b[1]) - BigBitLen(a[1])
             qr == BigDivMod(BigShl(a[1], t), b[1])
             sticky == IF qr[2] = <<>> THEN <<>> ELSE <<1>>
         IN Round53(BigAdd(BigAdd(qr[1], qr[1]), sticky), a[2] - b[2] - t - 1)

\* a <= b, for values <<m, e>> in canonical form or not
VLeq(a, b) ==
    LET e == IF a[2] < b[2] THEN a[2] ELSE b[2]
    IN BigCmp(BigShl(a[1], a[2] - e), BigShl(b[1], b[2] - e)) <= 0

DMax(a, b) == IF VLeq(a, b) THEN b ELSE a
DOne == DFromInt(1)

(* ---------------------------- get_entities ---------------------------- *)
\* tag.split("-")
RECURSIVE split(_)
split(s) ==
    IF \A i \in 1..Len(s) : s[i] # "-"
    THEN <<s>>
    ELSE LET i == CHOOSE k \in 1..Len(s) :
                      s[k] = "-" /\ \A j \in 1..(k - 1) : s[j] # "-"
         IN <<SubSeq(s, 1, i - 1)>> \o split(SubSeq(s, i + 1, Len(s)))

\* BIO=parts[0] whatever the number of parts
ParseBIO_first(tag) == split(tag)[1]

\* BIO="O"; if len(parts) == 2: BIO=parts[0]
ParseBIO(tag) ==
    LET parts == split(tag)
    IN IF Len(parts) = 2 THEN parts[1] ELSE O

\* cat assigned by the first two-part tag only and kept from then on
ParseCat_first(tag, oldCat) ==
    LET parts == split(tag)
    IN IF Len(parts) = 2 /\ oldCat = Unbound THEN parts[2] ELSE oldCat

\* if len(parts) == 2: cat=parts[1]   (cat keeps its old value otherwise)
ParseCat(tag, oldCat) ==
    LET parts == split(tag)
    IN IF Len(parts) = 2 THEN parts[2] ELSE oldCat

\* if BIO == "B" or BIO == "O": if start != None:
Closes(BIO, st) == (BIO = <<"B">> \/ BIO = O) /\ st # None

\* end=w_idx, the closing token taken into the chunk
CloseEnd_current(wi) == wi

\* end=w_idx-1
CloseEnd(wi) == wi - 1

\* if BIO == "B":
Opens(BIO) == BIO = <<"B">>

\* The body of the loop over w_idx, on the locals l = [ents, start, startCat, cat].
LoopBody(l, si, wi, tag) ==
    LET BIO == ParseBIO(tag)
        cat1 == ParseCat(tag, l.cat)
        closed == Closes(BIO, l.start)
        ents1 == IF closed
                 THEN Append(l.ents, <<si, l.start, CloseEnd(wi), l.startCat>>)
                 ELSE l.ents
        start1 == IF closed THEN None ELSE l.start
        startCat1 == IF closed THEN NoneCat ELSE l.startCat
    IN [ents |-> ents1,
        start |-> IF Opens(BIO) THEN wi ELSE start1,
        startCat |-> IF Opens(BIO) THEN cat1 ELSE startCat1,
        cat |-> cat1]

\* start and startCat set to None before the loop over s_idx, not inside it
SentenceReset_once(l, si) == l

\* start=None; startCat=None at the head of the loop over s_idx
SentenceReset(l, si) == [l EXCEPT !.start = None, !.startCat = NoneCat]

\* len(sent)
LastIndex_len(sent) == Len(sent)

\* len(sent)-1
LastIndex(sent) == Len(sent) - 1

\* if start != None: ents.append((s_idx, start, len(sent)-1, startCat))
SentenceClose(l, si, sent) ==
    IF l.start # None
    THEN [l EXCEPT !.ents = Append(l.ents, <<si, l.start, LastIndex(sent), l.startCat>>)]
    ELSE l

RECURSIVE ScanTokens(_, _, _, _)
ScanTokens(l, si, sent, wi) ==
    IF wi >= Len(sent) THEN l
    ELSE ScanTokens(LoopBody(l, si, wi, sent[wi + 1]), si, sent, wi + 1)

RECURSIVE ScanSentences(_, _, _)
ScanSentences(l, seqs, si) ==
    IF si >= Len(seqs) THEN l
    ELSE ScanSentences(
             SentenceClose(ScanTokens(SentenceReset(l, si), si, seqs[si + 1], 0),
                           si, seqs[si + 1]),
             seqs, si + 1)

\* ents kept from the call before, as a mutable default argument would be
FreshLocals_stale == [ents |-> ents, start |-> None, startCat |-> NoneCat, cat |-> Unbound]

\* The locals of a fresh call: ents=[] and nothing else assigned.
FreshLocals == [ents |-> <<>>, start |-> None, startCat |-> NoneCat, cat |-> Unbound]

\* get_entities(sequences) as one value: the list it returns.
get_entities(seqs) == ScanSentences(FreshLocals, seqs, 0).ents

(* ----------------------------- calculateF1 ---------------------------- *)
\* set(gold_ents), set(pred_ents)
ToSet(list) == Range(list)

\* an intersection that compares the span and not the category
Intersection_span(g, p) ==
    {x \in p : \E y \in g : x[1] = y[1] /\ x[2] = y[2] /\ x[3] = y[3]}

\* g_set.intersection(p_set)
Intersection(g, p) == g \cap p

\* the guard admitting an empty set
PrecisionGuard_geq(p) == Cardinality(p) >= 0

\* if len(p_set) > 0:
PrecisionGuard(p) == Cardinality(p) > 0
\* if len(g_set) > 0:
RecallGuard(g) == Cardinality(g) > 0
\* if precision + recall > 0:
F1Guard(pr, rc) == FPositive(FAdd(pr, rc))

\* precision*recall/(precision+recall), the factor 2 forgotten
F1Value_half(pr, rc) == FQuot(FMul(pr, rc), FAdd(pr, rc))

\* 2*precision*recall/(precision+recall)
F1Value(pr, rc) == FQuot(FMul(<<2, 1>>, FMul(pr, rc)), FAdd(pr, rc))

\* float(len(g_set.intersection(p_set)))/len(...), as the double it is
IeeeQuot(k, n) == DDiv(DFromInt(k), DFromInt(n))

\* 2*precision*recall/precision+recall
IeeeF1_sum(p, r) == DAdd(DDiv(DMul(DMul(DFromInt(2), p), r), p), r)

\* 2*precision*recall/(precision+recall), evaluated left to right, each
\* operation rounded
IeeeF1(p, r) == DDiv(DMul(DMul(DFromInt(2), p), r), DAdd(p, r))

\* No Dataset of the bounded inputs holds more chunks than tokens.
MaxChunks == MaxSents * MaxTokens
MaxPairChunks == MaxSents * MaxPairTokens

\* The quotients of the chunk counts up to MaxChunks and the F1 values of the
\* chunk counts up to MaxPairChunks, computed once; the others are computed
\* when they are met.
QuotTable ==
    {<<t[1], t[2], IeeeQuot(t[1], t[2])>> :
        t \in {u \in (0..MaxChunks) \X (1..MaxChunks) : u[1] <= u[2]}}

Quot(k, n) ==
    IF k <= n /\ n <= MaxChunks
    THEN (CHOOSE e \in QuotTable : e[1] = k /\ e[2] = n)[3]
    ELSE IeeeQuot(k, n)

F1Pairs ==
    {<<Quot(t[1], t[2]), Quot(t[1], t[3])>> :
        t \in {u \in (1..MaxPairChunks) \X (1..MaxPairChunks) \X (1..MaxPairChunks) :
                  u[1] <= u[2] /\ u[1] <= u[3]}}

F1Table == {<<pr, IeeeF1(pr[1], pr[2])>> : pr \in F1Pairs}

F1Of(p, r) ==
    IF <<p, r>> \in F1Pairs
    THEN (CHOOSE e \in F1Table : e[1] = <<p, r>>)[2]
    ELSE IeeeF1(p, r)

NoMetrics == [precision |-> DZero, recall |-> DZero, F1 |-> DZero]

(* ------------------------------ inputs -------------------------------- *)
RECURSIVE SentsOfLen(_, _)
SentsOfLen(tags, k) ==
    IF k = 0 THEN {<<>>}
    ELSE {Append(s, t) : s \in SentsOfLen(tags, k - 1), t \in tags}

\* Datasets of exactly m sentences, each of at least minLen tokens, holding at
\* most t tokens in all.
RECURSIVE DatasetsOf(_, _, _, _)
DatasetsOf(tags, minLen, m, t) ==
    IF m = 0 THEN {<<>>}
    ELSE UNION {{<<s>> \o d : s \in SentsOfLen(tags, k),
                              d \in DatasetsOf(tags, minLen, m - 1, t - k)} :
                k \in minLen..t}

Datasets(tags, minLen, maxSents, maxTokens) ==
    UNION {DatasetsOf(tags, minLen, m, maxTokens) : m \in 0..maxSents}

SelfTags == {O, B(PER), I(PER), B(ORG), X, X_PER, B(GEO_LOC), I(GEO_LOC)}
PairTags == {O, B(PER), I(PER), B(ORG)}

\* The example of the docstring and of the cell after calculateF1.
ExampleGold == <<<<B(PER), I(PER), O, O, O, O, B(ORG)>>, <<O, O, O>>>>
ExamplePred == <<<<B(PER), O, O, O, B(PER), O, B(ORG)>>, <<O, O, O>>>>
AllOutside == <<<<O, O, O>>>>

\* Five gold chunks and five predicted chunks, one of them matched.
FifthGold == <<<<B(PER), B(PER), B(PER)>>, <<B(PER), B(PER)>>>>
FifthPred == <<<<B(PER), B(ORG), B(ORG)>>, <<B(ORG), B(ORG)>>>>

Examples ==
    {<<ExampleGold, ExamplePred>>, <<AllOutside, AllOutside>>, <<FifthGold, FifthPred>>}

(* ------------------------------ machine ------------------------------- *)
\* No second invocation of calculateF1 is running.
NoFrame == [pc |-> "none"]

\* No F_score callback is running.
NoEpoch == [pc |-> "none"]

InitWith(gold, pred) ==
    /\ gold_sequences = gold
    /\ predicted_sequences = pred
    /\ pc = "call"
    /\ call = "gold"
    /\ sequences = <<>>
    /\ ents = <<>>
    /\ s_idx = -1
    /\ w_idx = -1
    /\ start = None
    /\ startCat = NoneCat
    /\ cat = Unbound
    /\ gold_ents = <<>>
    /\ pred_ents = <<>>
    /\ g_set = {}
    /\ p_set = {}
    /\ precision = Zero
    /\ recall = Zero
    /\ F1 = Zero
    /\ ieee = NoMetrics
    /\ result = <<>>
    /\ session = [calls |-> 1, args |-> <<gold, pred>>, history |-> <<>>]

\* calculateF1(D, D) for every bounded Dataset D over SelfTags, empty sentences
\* included.
InitSelf ==
    /\ \E d \in Datasets(SelfTags, 0, MaxSents, MaxTokens) : InitWith(d, d)
    /\ other = NoFrame
    /\ epoch = NoEpoch

\* calculateF1(gold, predicted) for every bounded pair over PairTags, aligned or
\* not, and the examples.  Sentences are non-empty, as read_tsv builds them.
PairDatasets == Datasets(PairTags, 1, MaxSents, MaxPairTokens)

InitPair ==
    /\ \E pair \in (PairDatasets \X PairDatasets) \cup Examples :
           InitWith(pair[1], pair[2])
    /\ other = NoFrame
    /\ epoch = NoEpoch

Locals == [ents |-> ents, start |-> start, startCat |-> startCat, cat |-> cat]

SetLocals(l) ==
    /\ ents' = l.ents
    /\ start' = l.start
    /\ startCat' = l.startCat
    /\ cat' = l.cat

\* gold_ents=get_entities(gold_sequences) / pred_ents=get_entities(predicted_sequences):
\* enter get_entities with fresh locals.
CallGetEntities ==
    /\ pc = "call"
    /\ sequences' = IF call = "gold" THEN gold_sequences ELSE predicted_sequences
    /\ SetLocals(FreshLocals)
    /\ s_idx' = -1
    /\ w_idx' = -1
    /\ pc' = "for_s"
    /\ UNCHANGED <<gold_sequences, predicted_sequences, call, gold_ents, pred_ents,
                   g_set, p_set, precision, recall, F1, ieee, result>>
    /\ UNCHANGED aux

\* for s_idx in range(len(sequences)): sent=sequences[s_idx]; start=None; startCat=None
SentenceStart ==
    /\ pc = "for_s"
    /\ s_idx + 1 < Len(sequences)
    /\ s_idx' = s_idx + 1
    /\ SetLocals(SentenceReset(Locals, s_idx + 1))
    /\ w_idx' = -1
    /\ pc' = "for_w"
    /\ UNCHANGED <<gold_sequences, predicted_sequences, call, sequences, gold_ents,
                   pred_ents, g_set, p_set, precision, recall, F1, ieee, result>>
    /\ UNCHANGED aux

\* for w_idx in range(len(sent)): one pass of the loop body
Token ==
    /\ pc = "for_w"
    /\ w_idx + 1 < Len(sequences[s_idx + 1])
    /\ w_idx' = w_idx + 1
    /\ SetLocals(LoopBody(Locals, s_idx, w_idx + 1, sequences[s_idx + 1][w_idx + 2]))
    /\ UNCHANGED <<gold_sequences, predicted_sequences, pc, call, sequences, s_idx,
                   gold_ents, pred_ents, g_set, p_set, precision, recall, F1, ieee, result>>
    /\ UNCHANGED aux

\* after the loop over w_idx: close the chunk still open
SentenceEnd ==
    /\ pc = "for_w"
    /\ w_idx + 1 >= Len(sequences[s_idx + 1])
    /\ SetLocals(SentenceClose(Locals, s_idx, sequences[s_idx + 1]))
    /\ pc' = "for_s"
    /\ UNCHANGED <<gold_sequences, predicted_sequences, call, sequences, s_idx, w_idx,
                   gold_ents, pred_ents, g_set, p_set, precision, recall, F1, ieee, result>>
    /\ UNCHANGED aux

\* return ents, assigned to gold_ents or to pred_ents
ReturnEntities ==
    /\ pc = "for_s"
    /\ s_idx + 1 >= Len(sequences)
    /\ IF call = "gold"
       THEN /\ gold_ents' = ents
            /\ call' = "pred"
            /\ pc' = "call"
            /\ UNCHANGED pred_ents
       ELSE /\ pred_ents' = ents
            /\ call' = "none"
            /\ pc' = "sets"
            /\ UNCHANGED gold_ents
    /\ UNCHANGED <<gold_sequences, predicted_sequences, sequences, ents, s_idx, w_idx,
                   start, startCat, cat, g_set, p_set, precision, recall, F1, ieee, result>>
    /\ UNCHANGED aux

\* g_set=set(gold_ents); p_set=set(pred_ents)
MakeSets ==
    /\ pc = "sets"
    /\ g_set' = ToSet(gold_ents)
    /\ p_set' = ToSet(pred_ents)
    /\ pc' = "precision"
    /\ UNCHANGED <<gold_sequences, predicted_sequences, call, sequences, ents, s_idx,
                   w_idx, start, startCat, cat, gold_ents, pred_ents, precision,
                   recall, F1, ieee, result>>
    /\ UNCHANGED aux

\* precision=0; if len(p_set) > 0: precision=float(len(g_set.intersection(p_set)))/len(p_set)
Precision ==
    /\ pc = "precision"
    /\ IF PrecisionGuard(p_set)
       THEN IF Cardinality(p_set) = 0
            THEN pc' = "ZeroDivisionError" /\ UNCHANGED <<precision, ieee>>
            ELSE /\ precision' = Frac(Cardinality(Intersection(g_set, p_set)),
                                      Cardinality(p_set))
                 /\ ieee' = [ieee EXCEPT !.precision =
                                 Quot(Cardinality(Intersection(g_set, p_set)),
                                      Cardinality(p_set))]
                 /\ pc' = "recall"
       ELSE /\ precision' = Zero
            /\ ieee' = [ieee EXCEPT !.precision = DZero]
            /\ pc' = "recall"
    /\ UNCHANGED <<gold_sequences, predicted_sequences, call, sequences, ents, s_idx,
                   w_idx, start, startCat, cat, gold_ents, pred_ents, g_set, p_set,
                   recall, F1, result>>
    /\ UNCHANGED aux

\* recall=0; if len(g_set) > 0: recall=float(len(g_set.intersection(p_set)))/len(g_set)
Recall ==
    /\ pc = "recall"
    /\ IF RecallGuard(g_set)
       THEN IF Cardinality(g_set) = 0
            THEN pc' = "ZeroDivisionError" /\ UNCHANGED <<recall, ieee>>
            ELSE /\ recall' = Frac(Cardinality(Intersection(g_set, p_set)),
                                   Cardinality(g_set))
                 /\ ieee' = [ieee EXCEPT !.recall =
                                 Quot(Cardinality(Intersection(g_set, p_set)),
                                      Cardinality(g_set))]
                 /\ pc' = "F1"
       ELSE /\ recall' = Zero
            /\ ieee' = [ieee EXCEPT !.recall = DZero]
            /\ pc' = "F1"
    /\ UNCHANGED <<gold_sequences, predicted_sequences, call, sequences, ents, s_idx,
                   w_idx, start, startCat, cat, gold_ents, pred_ents, g_set, p_set,
                   precision, F1, result>>
    /\ UNCHANGED aux

\* F1=0; if precision + recall > 0: F1=2*precision*recall/(precision+recall)
ComputeF1 ==
    /\ pc = "F1"
    /\ IF F1Guard(precision, recall)
       THEN IF FAdd(precision, recall)[1] = 0
            THEN pc' = "ZeroDivisionError" /\ UNCHANGED <<F1, ieee>>
            ELSE /\ F1' = F1Value(precision, recall)
                 /\ ieee' = [ieee EXCEPT !.F1 = F1Of(ieee.precision, ieee.recall)]
                 /\ pc' = "return"
       ELSE /\ F1' = Zero
            /\ ieee' = [ieee EXCEPT !.F1 = DZero]
            /\ pc' = "return"
    /\ UNCHANGED <<gold_sequences, predicted_sequences, call, sequences, ents, s_idx,
                   w_idx, start, startCat, cat, gold_ents, pred_ents, g_set, p_set,
                   precision, recall, result>>
    /\ UNCHANGED aux

\* return precision, recall, F1
ReturnMetrics ==
    /\ pc = "return"
    /\ result' = <<precision, recall, F1>>
    /\ pc' = "done"
    /\ UNCHANGED <<gold_sequences, predicted_sequences, call, sequences, ents, s_idx,
                   w_idx, start, startCat, cat, gold_ents, pred_ents, g_set, p_set,
                   precision, recall, F1, ieee>>
    /\ UNCHANGED aux

Next ==
    \/ CallGetEntities
    \/ SentenceStart
    \/ Token
    \/ SentenceEnd
    \/ ReturnEntities
    \/ MakeSets
    \/ Precision
    \/ Recall
    \/ ComputeF1
    \/ ReturnMetrics

SpecSelf == InitSelf /\ [][Next]_vars
SpecPair == InitPair /\ [][Next]_vars

(* ------------------------- a sequence of calls ------------------------ *)
\* The argument pairs of the calls of a session.
RepeatInputs ==
    {<<ExampleGold, ExamplePred>>,
     <<ExamplePred, ExampleGold>>,
     <<AllOutside, AllOutside>>,
     <<<<>>, <<>>>>,
     <<<<<<B(ORG), I(ORG)>>, <<B(PER)>>>>, <<<<B(ORG), O>>, <<B(PER)>>>>>>}

InitRepeat ==
    /\ \E pair \in RepeatInputs : InitWith(pair[1], pair[2])
    /\ other = NoFrame
    /\ epoch = NoEpoch

\* The finished call, as the caller saw it.
FinishedCall ==
    [gold |-> gold_sequences, pred |-> predicted_sequences,
     gold_ents |-> gold_ents, pred_ents |-> pred_ents, result |-> result,
     ieee |-> ieee]

\* calculateF1 is called again.  The variables of the frame keep the values the
\* previous call left in them: a new frame holds no value at all, so whatever the
\* new call reads it must have assigned first.
NewCall ==
    /\ pc = "done"
    /\ session.calls < MaxCalls
    /\ \E pair \in RepeatInputs :
           /\ gold_sequences' = pair[1]
           /\ predicted_sequences' = pair[2]
           /\ session' = [calls |-> session.calls + 1,
                          args |-> pair,
                          history |-> Append(session.history, FinishedCall)]
    /\ pc' = "call"
    /\ call' = "gold"
    /\ UNCHANGED <<sequences, ents, s_idx, w_idx, start, startCat, cat, gold_ents,
                   pred_ents, g_set, p_set, precision, recall, F1, ieee, result, other,
                   epoch>>

NextRepeat ==
    \/ Next
    \/ NewCall

SpecRepeat == InitRepeat /\ [][NextRepeat]_vars

(* ------------------------ two invocations at once --------------------- *)
\* The frame of a second invocation calculateF1(gold, pred), running in another
\* thread: its own arguments and its own locals, those of its get_entities
\* included.
InitFrame(gold, pred) ==
    [gold_sequences |-> gold, predicted_sequences |-> pred, pc |-> "call",
     call |-> "gold", sequences |-> <<>>, ents |-> <<>>, s_idx |-> -1, w_idx |-> -1,
     start |-> None, startCat |-> NoneCat, cat |-> Unbound, gold_ents |-> <<>>,
     pred_ents |-> <<>>, g_set |-> {}, p_set |-> {}, precision |-> Zero,
     recall |-> Zero, F1 |-> Zero, ieee |-> NoMetrics, result |-> <<>>,
     overlapped |-> FALSE]

\* ents, start, startCat and cat as the other invocation's get_entities were to
\* see them if they were module-level names
OtherLocals_shared(f) == Locals

\* ents, start, startCat and cat as the other invocation's get_entities sees
\* them: the locals of its own call
OtherLocals(f) ==
    [ents |-> f.ents, start |-> f.start, startCat |-> f.startCat, cat |-> f.cat]

WithLocals(f, l) ==
    [f EXCEPT !.ents = l.ents, !.start = l.start, !.startCat = l.startCat,
              !.cat = l.cat]

\* One step of the frame f, as the actions above take it.
StepFrame(f) ==
    LET matched == Cardinality(Intersection(f.g_set, f.p_set)) IN
    CASE f.pc = "call" ->
           [WithLocals(f, FreshLocals) EXCEPT
               !.sequences = IF f.call = "gold" THEN f.gold_sequences
                             ELSE f.predicted_sequences,
               !.s_idx = -1, !.w_idx = -1, !.pc = "for_s"]
      [] f.pc = "for_s" /\ f.s_idx + 1 < Len(f.sequences) ->
           [WithLocals(f, SentenceReset(OtherLocals(f), f.s_idx + 1)) EXCEPT
               !.s_idx = f.s_idx + 1, !.w_idx = -1, !.pc = "for_w"]
      [] f.pc = "for_s" /\ f.s_idx + 1 >= Len(f.sequences) ->
           IF f.call = "gold"
           THEN [f EXCEPT !.gold_ents = OtherLocals(f).ents, !.call = "pred",
                          !.pc = "call"]
           ELSE [f EXCEPT !.pred_ents = OtherLocals(f).ents, !.call = "none",
                          !.pc = "sets"]
      [] f.pc = "for_w" /\ f.w_idx + 1 < Len(f.sequences[f.s_idx + 1]) ->
           [WithLocals(f, LoopBody(OtherLocals(f), f.s_idx, f.w_idx + 1,
                                   f.sequences[f.s_idx + 1][f.w_idx + 2])) EXCEPT
               !.w_idx = f.w_idx + 1]
      [] f.pc = "for_w" /\ f.w_idx + 1 >= Len(f.sequences[f.s_idx + 1]) ->
           [WithLocals(f, SentenceClose(OtherLocals(f), f.s_idx,
                                        f.sequences[f.s_idx + 1])) EXCEPT
               !.pc = "for_s"]
      [] f.pc = "sets" ->
           [f EXCEPT !.g_set = ToSet(f.gold_ents), !.p_set = ToSet(f.pred_ents),
                     !.pc = "precision"]
      [] f.pc = "precision" ->
           IF ~PrecisionGuard(f.p_set)
           THEN [f EXCEPT !.precision = Zero, !.ieee.precision = DZero, !.pc = "recall"]
           ELSE IF Cardinality(f.p_set) = 0
           THEN [f EXCEPT !.pc = "ZeroDivisionError"]
           ELSE [f EXCEPT !.precision = Frac(matched, Cardinality(f.p_set)),
                          !.ieee.precision = Quot(matched, Cardinality(f.p_set)),
                          !.pc = "recall"]
      [] f.pc = "recall" ->
           IF ~RecallGuard(f.g_set)
           THEN [f EXCEPT !.recall = Zero, !.ieee.recall = DZero, !.pc = "F1"]
           ELSE IF Cardinality(f.g_set) = 0
           THEN [f EXCEPT !.pc = "ZeroDivisionError"]
           ELSE [f EXCEPT !.recall = Frac(matched, Cardinality(f.g_set)),
                          !.ieee.recall = Quot(matched, Cardinality(f.g_set)),
                          !.pc = "F1"]
      [] f.pc = "F1" ->
           IF ~F1Guard(f.precision, f.recall)
           THEN [f EXCEPT !.F1 = Zero, !.ieee.F1 = DZero, !.pc = "return"]
           ELSE IF FAdd(f.precision, f.recall)[1] = 0
           THEN [f EXCEPT !.pc = "ZeroDivisionError"]
           ELSE [f EXCEPT !.F1 = F1Value(f.precision, f.recall),
                          !.ieee.F1 = F1Of(f.ieee.precision, f.ieee.recall),
                          !.pc = "return"]
      [] f.pc = "return" ->
           [f EXCEPT !.result = <<f.precision, f.recall, f.F1>>, !.pc = "done"]

\* The arguments of two invocations running at once.
ConcurrentInputs ==
    {<<ExampleGold, ExamplePred>>,
     <<AllOutside, AllOutside>>,
     <<<<<<B(ORG), I(ORG)>>, <<B(PER)>>>>, <<<<B(ORG), O>>, <<B(PER)>>>>>>}

InitConcurrent ==
    \E one \in ConcurrentInputs, two \in ConcurrentInputs :
        /\ InitWith(one[1], one[2])
        /\ other = InitFrame(two[1], two[2])
        /\ epoch = NoEpoch

\* The scheduler runs the other thread for one step.
OtherStep ==
    /\ other.pc \in {"call", "for_s", "for_w", "sets", "precision", "recall", "F1",
                     "return"}
    /\ other' = [StepFrame(other) EXCEPT
                    !.overlapped = other.overlapped \/ pc \in {"for_s", "for_w"}]
    /\ UNCHANGED <<gold_sequences, predicted_sequences, pc, call, sequences, ents,
                   s_idx, w_idx, start, startCat, cat, gold_ents, pred_ents, g_set,
                   p_set, precision, recall, F1, ieee, result, session, epoch>>

NextConcurrent ==
    \/ Next
    \/ OtherStep

SpecConcurrent == InitConcurrent /\ [][NextConcurrent]_vars

(* ----------------------- the F_score callback ------------------------- *)
\* The tags of the training sentences; the words play no part.
TrainData == {<<<<O, B(PER)>>, <<O>>>>, <<<<B(PER), I(PER)>>, <<B(PER)>>>>}

RECURSIVE Flatten(_)
Flatten(sentences) ==
    IF sentences = <<>> THEN <<>> ELSE Head(sentences) \o Flatten(Tail(sentences))

\* The distinct tags in order of first occurrence.
RECURSIVE FirstOccurrences(_, _)
FirstOccurrences(tags, seen) ==
    IF tags = <<>> THEN seen
    ELSE FirstOccurrences(Tail(tags),
             IF Head(tags) \in Range(seen) THEN seen ELSE Append(seen, Head(tags)))

\* get_tag_vocab: tid=1; each tag not yet in tags gets tid, then tid+=1.
\* 0 is for masking.
get_tag_vocab(sentences) ==
    LET order == FirstOccurrences(Flatten(sentences), <<>>)
    IN [t \in Range(order) |-> CHOOSE k \in 1..Len(order) : order[k] = t]

\* rev_tags={}; for t in tag_vocab: rev_tags[tag_vocab[t]]=t
rev_tags(tag_vocab) ==
    [k \in {tag_vocab[t] : t \in DOMAIN tag_vocab} |->
        CHOOSE t \in DOMAIN tag_vocab : tag_vocab[t] = k]

\* keras to_categorical(k, num_classes=n): the one-hot vector of class k.
to_categorical(k, n) == [c \in 0..(n - 1) |-> IF c = k THEN 1 ELSE 0]

\* numpy argmax over the last axis: the first index of a largest entry.
argmax(v) ==
    CHOOSE c \in DOMAIN v :
        /\ \A d \in DOMAIN v : v[d] <= v[c]
        /\ \A d \in DOMAIN v : v[d] = v[c] => c <= d

max_length(sentences) ==
    IF sentences = <<>> THEN 0
    ELSE CHOOSE m \in {Len(sentences[i]) : i \in 1..Len(sentences)} :
             \A i \in 1..Len(sentences) : Len(sentences[i]) <= m

\* get_word_ids: the one-hot tag ids of each sentence, padded with class 0 to
\* the longest sentence, and the token count of each sentence.
get_word_ids(sentences, label_vocab) ==
    LET output_dim == Cardinality(DOMAIN label_vocab) + 1
    IN [tags_ids |->
            [i \in 1..Len(sentences) |->
                [j \in 1..max_length(sentences) |->
                    IF j <= Len(sentences[i])
                    THEN to_categorical(label_vocab[sentences[i][j]], output_dim)
                    ELSE to_categorical(0, output_dim)]],
        sent_lengths |-> [i \in 1..Len(sentences) |-> Len(sentences[i])]]

\* The validation sentences: at least one, none empty, as read_tsv builds them,
\* over the tags of the vocabulary.
ValData(tag_vocab) == Datasets(DOMAIN tag_vocab, 1, MaxValSents, MaxValTokens) \ {<<>>}

\* on_epoch_end up to the loop: truth = valY.argmax(axis=-1), and
\* y_classes = predictions.argmax(axis=-1), any class of the output layer of
\* len(tag_vocab)+1 units at every position, padded ones included.
InitEpoch ==
    /\ \E train \in TrainData :
         LET tag_vocab == get_tag_vocab(train)
         IN \E dev \in ValData(tag_vocab) :
              LET data == get_word_ids(dev, tag_vocab)
                  s == Len(dev)
                  w == max_length(dev)
              IN \E y \in [1..s -> [1..w -> 0..Cardinality(DOMAIN tag_vocab)]] :
                   epoch = [pc |-> "for_i",
                            reverse_tag_vocab |-> rev_tags(tag_vocab),
                            valS |-> data.sent_lengths,
                            truth |-> [i \in 1..s |->
                                          [j \in 1..w |-> argmax(data.tags_ids[i][j])]],
                            y_classes |-> y,
                            preds |-> <<>>, golds |-> <<>>,
                            sent_preds |-> <<>>, sent_golds |-> <<>>,
                            i |-> -1, j |-> -1]
    /\ gold_sequences = <<>>
    /\ predicted_sequences = <<>>
    /\ pc = "idle"
    /\ call = "gold"
    /\ sequences = <<>>
    /\ ents = <<>>
    /\ s_idx = -1
    /\ w_idx = -1
    /\ start = None
    /\ startCat = NoneCat
    /\ cat = Unbound
    /\ gold_ents = <<>>
    /\ pred_ents = <<>>
    /\ g_set = {}
    /\ p_set = {}
    /\ precision = Zero
    /\ recall = Zero
    /\ F1 = Zero
    /\ ieee = NoMetrics
    /\ result = <<>>
    /\ session = [calls |-> 0, args |-> <<>>, history |-> <<>>]
    /\ other = NoFrame

\* The bound of the inner loop as if it ran over the padded width of the row.
RowLength_padded(e) == Len(e.y_classes[e.i + 1])

\* int(valS[i])
RowLength(e) == e.valS[e.i + 1]

\* for i in range(s): sent_preds=[]; sent_golds=[]
EpochSentence ==
    /\ epoch.pc = "for_i"
    /\ epoch.i + 1 < Len(epoch.y_classes)
    /\ epoch' = [epoch EXCEPT !.i = epoch.i + 1, !.j = -1, !.sent_preds = <<>>,
                              !.sent_golds = <<>>, !.pc = "for_j"]
    /\ UNCHANGED <<gold_sequences, predicted_sequences, pc, call, sequences, ents,
                   s_idx, w_idx, start, startCat, cat, gold_ents, pred_ents, g_set,
                   p_set, precision, recall, F1, ieee, result, session, other>>

\* for j in range(int(valS[i])):
\*     sent_golds.append(self.reverse_tag_vocab[truth[i,j]])
\*     sent_preds.append(self.reverse_tag_vocab[y_classes[i,j]])
\* An index past the row raises IndexError, a missing key KeyError.
EpochToken ==
    /\ epoch.pc = "for_j"
    /\ epoch.j + 1 < RowLength(epoch)
    /\ LET j == epoch.j + 1
           row == epoch.i + 1
           rev == epoch.reverse_tag_vocab
       IN epoch' =
            IF j >= Len(epoch.y_classes[row])
            THEN [epoch EXCEPT !.j = j, !.pc = "IndexError"]
            ELSE LET t == epoch.truth[row][j + 1]
                     y == epoch.y_classes[row][j + 1]
                 IN IF t \notin DOMAIN rev
                    THEN [epoch EXCEPT !.j = j, !.pc = "KeyError"]
                    ELSE IF y \notin DOMAIN rev
                    THEN [epoch EXCEPT !.j = j, !.sent_golds = Append(@, rev[t]),
                                       !.pc = "KeyError"]
                    ELSE [epoch EXCEPT !.j = j, !.sent_golds = Append(@, rev[t]),
                                       !.sent_preds = Append(@, rev[y])]
    /\ UNCHANGED <<gold_sequences, predicted_sequences, pc, call, sequences, ents,
                   s_idx, w_idx, start, startCat, cat, gold_ents, pred_ents, g_set,
                   p_set, precision, recall, F1, ieee, result, session, other>>

\* preds.append(sent_preds); golds.append(sent_golds)
EpochSentenceEnd ==
    /\ epoch.pc = "for_j"
    /\ ~(epoch.j + 1 < RowLength(epoch))
    /\ epoch' = [epoch EXCEPT !.preds = Append(@, epoch.sent_preds),
                              !.golds = Append(@, epoch.sent_golds),
                              !.pc = "for_i"]
    /\ UNCHANGED <<gold_sequences, predicted_sequences, pc, call, sequences, ents,
                   s_idx, w_idx, start, startCat, cat, gold_ents, pred_ents, g_set,
                   p_set, precision, recall, F1, ieee, result, session, other>>

\* precision, recall, F1=calculateF1(golds, preds): enter calculateF1.
EpochCall ==
    /\ epoch.pc = "for_i"
    /\ ~(epoch.i + 1 < Len(epoch.y_classes))
    /\ pc = "idle"
    /\ gold_sequences' = epoch.golds
    /\ predicted_sequences' = epoch.preds
    /\ pc' = "call"
    /\ call' = "gold"
    /\ session' = [calls |-> 1, args |-> <<epoch.golds, epoch.preds>>,
                   history |-> <<>>]
    /\ epoch' = [epoch EXCEPT !.pc = "calculateF1"]
    /\ UNCHANGED <<sequences, ents, s_idx, w_idx, start, startCat, cat, gold_ents,
                   pred_ents, g_set, p_set, precision, recall, F1, ieee, result,
                   other>>

\* calculateF1 has returned: print("P: %.3f, R: %.3f, F: %.3f" % ...); return
EpochReturn ==
    /\ epoch.pc = "calculateF1"
    /\ pc = "done"
    /\ epoch' = [epoch EXCEPT !.pc = "done"]
    /\ UNCHANGED <<gold_sequences, predicted_sequences, pc, call, sequences, ents,
                   s_idx, w_idx, start, startCat, cat, gold_ents, pred_ents, g_set,
                   p_set, precision, recall, F1, ieee, result, session, other>>

NextEpoch ==
    \/ EpochSentence
    \/ EpochToken
    \/ EpochSentenceEnd
    \/ EpochCall
    \/ Next
    \/ EpochReturn

SpecEpoch == InitEpoch /\ [][NextEpoch]_vars

(* ------------------------------ claims -------------------------------- *)
Done == pc = "done"

\* a = b as 4-tuples, field by field
SameChunk(a, b) == a[1] = b[1] /\ a[2] = b[2] /\ a[3] = b[3] /\ a[4] = b[4]

\* The predicted chunks that equal some gold chunk in all four fields.
Matched(G, P) == {p \in P : \E g \in G : SameChunk(g, p)}

\* The fraction f equals n / d (d > 0), by cross-multiplication.
IsRatio(f, n, d) == f[2] > 0 /\ f[1] * d = n * f[2]

\* C1: on the docstring example, the gold chunks are {(0,0,1,PER), (0,6,6,ORG)},
\* the predicted chunks are {(0,0,0,PER), (0,4,4,PER), (0,6,6,ORG)}, their
\* intersection is {(0,6,6,ORG)}, and calculateF1 returns (1/3, 1/2, 2/5).
C1_Example ==
    (Done /\ gold_sequences = ExampleGold /\ predicted_sequences = ExamplePred) =>
        /\ g_set = {<<0, 0, 1, PER>>, <<0, 6, 6, ORG>>}
        /\ p_set = {<<0, 0, 0, PER>>, <<0, 4, 4, PER>>, <<0, 6, 6, ORG>>}
        /\ g_set \cap p_set = {<<0, 6, 6, ORG>>}
        /\ result = <<<<1, 3>>, <<1, 2>>, <<2, 5>>>>

C1_Witness ==
    Done /\ gold_sequences = ExampleGold /\ predicted_sequences = ExamplePred

\* C3: calculateF1 returns precision = |G n P| / |P| (0 when P is empty),
\* recall = |G n P| / |G| (0 when G is empty) and
\* F1 = 2*precision*recall/(precision+recall) (0 when precision+recall = 0),
\* where a predicted chunk counts only when all four of its fields equal those
\* of a gold chunk.
C3_Metrics ==
    Done =>
        LET G == ToSet(gold_ents)
            P == ToSet(pred_ents)
            m == Cardinality(Matched(G, P))
            pr == result[1]
            rc == result[2]
            f == result[3]
            sumNum == pr[1] * rc[2] + rc[1] * pr[2]
        IN /\ IF P # {} THEN IsRatio(pr, m, Cardinality(P)) ELSE pr = Zero
           /\ IF G # {} THEN IsRatio(rc, m, Cardinality(G)) ELSE rc = Zero
           /\ IF sumNum > 0
              THEN f[2] > 0 /\ f[1] * sumNum = 2 * pr[1] * rc[1] * f[2]
              ELSE f = Zero

\* The same span in another sentence and the same span with another category
\* are both present, and neither is matched.
C3_Witness ==
    /\ Done
    /\ Matched(g_set, p_set) = {}
    /\ result[1] = Zero
    /\ \E g \in g_set, p \in p_set : g[1] = p[1] /\ g[2] = p[2] /\ g[3] = p[3]
    /\ \E g \in g_set, p \in p_set :
           g[1] # p[1] /\ g[2] = p[2] /\ g[3] = p[3] /\ g[4] = p[4]

\* C4: calculateF1(D, D) returns (1, 1, 1) whenever the chunk set of D is not empty.
C4_Identical ==
    (Done /\ predicted_sequences = gold_sequences /\ ToSet(gold_ents) # {}) =>
        result = <<One, One, One>>

C4_Witness ==
    /\ Done
    /\ predicted_sequences = gold_sequences
    /\ Cardinality(ToSet(gold_ents)) >= 2
    /\ result = <<One, One, One>>

\* C5: no division has a zero denominator; a metric whose chunk set is empty is
\* 0, and calculateF1([], []) and calculateF1([[O,O,O]], [[O,O,O]]) return (0, 0, 0).
C5_NoZeroDivision ==
    /\ pc # "ZeroDivisionError"
    /\ Done =>
        /\ (ToSet(pred_ents) = {} => result[1] = Zero)
        /\ (ToSet(gold_ents) = {} => result[2] = Zero)
        /\ ((ToSet(pred_ents) = {} \/ ToSet(gold_ents) = {}) => result[3] = Zero)
        /\ ((gold_sequences = <<>> /\ predicted_sequences = <<>>) =>
                result = <<Zero, Zero, Zero>>)
        /\ ((gold_sequences = AllOutside /\ predicted_sequences = AllOutside) =>
                result = <<Zero, Zero, Zero>>)

C5_Witness ==
    /\ Done
    /\ gold_sequences = AllOutside
    /\ predicted_sequences = AllOutside
    /\ result = <<Zero, Zero, Zero>>

(* -------------------- claims about get_entities ----------------------- *)
\* A tag as the data model describes it: "O", or B-<category> or I-<category>
\* with a non-empty category, which may itself hold hyphens.
WellFormed(tag) ==
    \/ tag = O
    \/ Len(tag) >= 3 /\ tag[1] \in {"B", "I"} /\ tag[2] = "-"

\* The BIO marker and the category of a well-formed tag.
Marker(tag) == tag[1]
Category(tag) == SubSeq(tag, 3, Len(tag))

HasHyphen(tag) == \E i \in 1..Len(tag) : tag[i] = "-"

\* The positions <<s, w>> (0-based) of a Dataset.
Positions(D) ==
    UNION {{<<s, w>> : w \in 0..(Len(D[s + 1]) - 1)} : s \in 0..(Len(D) - 1)}

TagAt(D, pos) == D[pos[1] + 1][pos[2] + 1]

\* D with the tag at pos replaced by "O".
WithOutside(D, pos) ==
    [D EXCEPT ![pos[1] + 1] = [@ EXCEPT ![pos[2] + 1] = O]]

\* The reference chunk set: (s, i, j, c) with token i of sentence s tagged B-c
\* and j + 1 the first position after i marked B or O, or j the last index.
ReferenceEnd(D, pos) ==
    LET sent == D[pos[1] + 1]
        stops == {k \in (pos[2] + 1)..(Len(sent) - 1) :
                      Marker(sent[k + 1]) \in {"B", "O"}}
    IN IF stops = {} THEN Len(sent) - 1
       ELSE (CHOOSE k \in stops : \A m \in stops : k <= m) - 1

ReferenceChunks(D) ==
    {<<pos[1], pos[2], ReferenceEnd(D, pos), Category(TagAt(D, pos))>> :
        pos \in {q \in Positions(D) :
                    TagAt(D, q) # O /\ Marker(TagAt(D, q)) = "B"}}

\* C2: on a Dataset of well-formed tags, get_entities returns the reference set.
C2_Reference ==
    (Done /\ \A q \in Positions(gold_sequences) : WellFormed(TagAt(gold_sequences, q))) =>
        ToSet(gold_ents) = ReferenceChunks(gold_sequences)

\* C6: every chunk emitted so far lies in a sentence of the Dataset and within
\* that sentence: 0 <= s < len(sequences), 0 <= start <= end <= len(sent) - 1.
C6_InBounds ==
    \A c \in ToSet(ents) :
        /\ 0 <= c[1] /\ c[1] < Len(sequences)
        /\ 0 <= c[2] /\ c[2] <= c[3]
        /\ c[3] <= Len(sequences[c[1] + 1]) - 1

\* Mid-scan, a chunk of two tokens has been emitted and another one is open.
C6_Witness ==
    /\ pc = "for_w"
    /\ start # None
    /\ \E c \in ToSet(ents) : c[2] < c[3]

\* C7: the chunks of sentence s are those of the one-sentence Dataset
\* [sentence s], with s as the sentence index.
C7_NoLeak ==
    Done =>
        \A s \in 0..(Len(gold_sequences) - 1) :
            {c \in ToSet(gold_ents) : c[1] = s} =
            {<<s, c[2], c[3], c[4]>> : c \in ToSet(get_entities(<<gold_sequences[s + 1]>>))}

\* A sentence ending in B-PER is followed by a sentence starting with I-PER.
C7_Witness ==
    /\ Done
    /\ Len(gold_sequences) = 2
    /\ Len(gold_sequences[1]) >= 1 /\ Len(gold_sequences[2]) >= 1
    /\ gold_sequences[1][Len(gold_sequences[1])] = B(PER)
    /\ gold_sequences[2][1] = I(PER)
    /\ ToSet(gold_ents) = {<<0, Len(gold_sequences[1]) - 1, Len(gold_sequences[1]) - 1, PER>>}

\* C8: replacing any tag that is not well-formed by "O" leaves the chunk set
\* unchanged.
C8_MalformedAsOutside ==
    Done =>
        \A q \in Positions(gold_sequences) :
            ~WellFormed(TagAt(gold_sequences, q)) =>
                ToSet(get_entities(WithOutside(gold_sequences, q))) = ToSet(gold_ents)

\* C9: a tag without a hyphen is handled as "O": replacing it by "O" leaves the
\* returned list unchanged, no chunk starts at it and no chunk covers it.
C9_NoHyphenAsOutside ==
    Done =>
        \A q \in Positions(gold_sequences) :
            (~HasHyphen(TagAt(gold_sequences, q)) /\ TagAt(gold_sequences, q) # O) =>
                /\ get_entities(WithOutside(gold_sequences, q)) = gold_ents
                /\ \A c \in ToSet(gold_ents) :
                       ~(c[1] = q[1] /\ c[2] <= q[2] /\ q[2] <= c[3])

\* A chunk opened by B-PER ends at the token before an "X".
C9_Witness ==
    /\ Done
    /\ \E q \in Positions(gold_sequences) :
           /\ TagAt(gold_sequences, q) = X
           /\ q[2] >= 1
           /\ TagAt(gold_sequences, <<q[1], q[2] - 1>>) = B(PER)
           /\ <<q[1], q[2] - 1, q[2] - 1, PER>> \in ToSet(gold_ents)

\* C10: a token tagged B-geo-loc opens a chunk of category geo-loc, and a
\* following I-geo-loc continues it.
C10_HyphenCategory ==
    Done =>
        \A q \in Positions(gold_sequences) :
            TagAt(gold_sequences, q) = B(GEO_LOC) =>
                \E c \in ToSet(gold_ents) :
                    /\ c[1] = q[1] /\ c[2] = q[2] /\ c[4] = GEO_LOC
                    /\ (/\ q[2] + 2 <= Len(gold_sequences[q[1] + 1])
                        /\ TagAt(gold_sequences, <<q[1], q[2] + 1>>) = I(GEO_LOC))
                       => c[3] >= q[2] + 1

(* ------------------------ claims about alignment ---------------------- *)
\* gold and predicted have the same number of sentences, and each sentence the
\* same number of tokens in both.
Aligned(gold, pred) ==
    /\ Len(gold) = Len(pred)
    /\ \A n \in 1..Len(gold) : Len(gold[n]) = Len(pred[n])

\* C11: on inputs that are not aligned calculateF1 returns no Metrics triple.
C11_AlignmentError ==
    ~Aligned(gold_sequences, predicted_sequences) => (pc # "done" /\ result = <<>>)

(* ----------------------- claims about purity -------------------------- *)
\* C12: the arguments are left as they were passed, and a call returns the
\* chunk lists and the metrics that every earlier call on the same arguments
\* returned, whatever calls came in between.
C12_Pure ==
    /\ <<gold_sequences, predicted_sequences>> = session.args
    /\ Done =>
        /\ \A h \in Range(session.history) :
               (h.gold = gold_sequences /\ h.pred = predicted_sequences) =>
                   /\ h.gold_ents = gold_ents
                   /\ h.pred_ents = pred_ents
                   /\ h.result = result
                   /\ h.ieee = ieee

\* The third call repeats the first one, after a call on other arguments that
\* left chunks behind.
C12_Witness ==
    /\ Done
    /\ session.calls = 3
    /\ session.history[1].gold = gold_sequences
    /\ session.history[1].pred = predicted_sequences
    /\ session.history[2].gold # gold_sequences
    /\ session.history[2].pred_ents # <<>>
    /\ gold_ents # <<>>
    /\ session.history[1].result = result

(* ------------------------ claims about rounding ----------------------- *)
\* a <= b * (1 + 2^-51), exactly
WithinRounding(a, b) ==
    VLeq(<<a[1], a[2] + 51>>, <<BigMul(b[1], BigAdd(BigShl(<<1>>, 51), <<1>>)), b[2]>>)

InUnitInterval(f) == VLeq(DZero, f) /\ VLeq(f, DOne)

MatchedWithinSets ==
    /\ Cardinality(Intersection(g_set, p_set)) <= Cardinality(g_set)
    /\ Cardinality(Intersection(g_set, p_set)) <= Cardinality(p_set)

\* C13, as stated: each returned metric lies in [0, 1], the matched count exceeds
\* neither set's size, and F1 never exceeds the larger of precision and recall.
C13_Range ==
    Done =>
        /\ InUnitInterval(ieee.precision)
        /\ InUnitInterval(ieee.recall)
        /\ InUnitInterval(ieee.F1)
        /\ MatchedWithinSets
        /\ VLeq(ieee.F1, DMax(ieee.precision, ieee.recall))

\* C13, amended: each returned metric lies in [0, 1], the matched count exceeds
\* neither set's size, and F1 exceeds the larger of precision and recall by at
\* most the rounding of the three float operations that compute it, a relative
\* 2^-51.
C13_RangeRounded ==
    Done =>
        /\ InUnitInterval(ieee.precision)
        /\ InUnitInterval(ieee.recall)
        /\ InUnitInterval(ieee.F1)
        /\ MatchedWithinSets
        /\ WithinRounding(ieee.F1, DMax(ieee.precision, ieee.recall))

\* precision = recall = 0.2 and F1 = 0.20000000000000004
C13_Witness ==
    /\ Done
    /\ ieee.precision = ieee.recall
    /\ ieee.precision = IeeeQuot(1, 5)
    /\ ~VLeq(ieee.F1, ieee.precision)
    /\ WithinRounding(ieee.F1, ieee.precision)

(* ----------------------- claims about concurrency --------------------- *)
\* What calculateF1(gold, pred) returns when nothing else runs, and the two
\* chunk lists it extracts.
Alone(gold, pred) ==
    LET G == ToSet(get_entities(gold))
        P == ToSet(get_entities(pred))
        k == Cardinality(Intersection(G, P))
        p == IF PrecisionGuard(P) THEN Frac(k, Cardinality(P)) ELSE Zero
        r == IF RecallGuard(G) THEN Frac(k, Cardinality(G)) ELSE Zero
        f == IF F1Guard(p, r) THEN F1Value(p, r) ELSE Zero
    IN [gold_ents |-> get_entities(gold), pred_ents |-> get_entities(pred),
        result |-> <<p, r, f>>]

\* C14: each of two invocations of calculateF1 whose steps interleave returns
\* what it returns alone, from the chunk lists it extracts alone.
C14_Interleaved ==
    /\ Done =>
        LET a == Alone(gold_sequences, predicted_sequences)
        IN gold_ents = a.gold_ents /\ pred_ents = a.pred_ents /\ result = a.result
    /\ other.pc = "done" =>
        LET a == Alone(other.gold_sequences, other.predicted_sequences)
        IN /\ other.gold_ents = a.gold_ents
           /\ other.pred_ents = a.pred_ents
           /\ other.result = a.result

\* Both invocations returned, on different arguments, and the second took steps
\* while the first was inside get_entities.
C14_Witness ==
    /\ Done
    /\ other.pc = "done"
    /\ other.overlapped
    /\ gold_ents # <<>>
    /\ other.gold_ents # <<>>
    /\ gold_ents # other.gold_ents
    /\ result # other.result

(* ------------------- claims about continuation tags ------------------- *)
\* A tag I-X with a non-empty X, which may itself hold hyphens.
InsideTag(tag) == Len(tag) >= 3 /\ tag[1] = "I" /\ tag[2] = "-"

\* C15: a token tagged I-X neither closes nor opens a chunk, whatever X is: no
\* chunk starts at it, no chunk ends at the token before it, and a chunk open
\* before it covers it and keeps the category of its B token.
C15_InsideContinues ==
    Done =>
        \A q \in Positions(gold_sequences) :
            InsideTag(TagAt(gold_sequences, q)) =>
                /\ \A c \in ToSet(gold_ents) :
                       c[1] = q[1] => (c[2] # q[2] /\ c[3] # q[2] - 1)
                /\ (/\ q[2] >= 1
                    /\ TagAt(gold_sequences, <<q[1], q[2] - 1>>) = B(PER))
                   => \E c \in ToSet(gold_ents) :
                          /\ c[1] = q[1] /\ c[2] = q[2] - 1
                          /\ c[3] >= q[2] /\ c[4] = PER

(* -------------------- claims about the F_score callback --------------- *)
\* The tags of the first valS[row] positions of a row of class indices.
RowTags(classes, row) ==
    [j \in 1..epoch.valS[row] |-> epoch.reverse_tag_vocab[classes[row][j]]]

\* C16: the Datasets on_epoch_end hands to calculateF1 have one sentence per
\* validation row, in row order, and sentence i holds the tags of positions
\* 0..valS[i]-1 of row i, gold and predicted alike; the loop never reads a
\* position at or past valS[i].
C16_Truncated ==
    /\ epoch.pc \in {"for_j", "KeyError", "IndexError"} =>
           epoch.j < epoch.valS[epoch.i + 1]
    /\ epoch.pc \in {"calculateF1", "done"} =>
           /\ Len(gold_sequences) = Len(epoch.y_classes)
           /\ Len(predicted_sequences) = Len(epoch.y_classes)
           /\ \A row \in 1..Len(epoch.y_classes) :
                  /\ epoch.valS[row] <= Len(epoch.y_classes[row])
                  /\ Len(gold_sequences[row]) = epoch.valS[row]
                  /\ Len(predicted_sequences[row]) = epoch.valS[row]
                  /\ gold_sequences[row] = RowTags(epoch.truth, row)
                  /\ predicted_sequences[row] = RowTags(epoch.y_classes, row)

\* The callback has finished on two rows, the first one padded, with class 0
\* predicted at its padded position, and chunks were scored.
C16_Witness ==
    /\ epoch.pc = "done"
    /\ Len(epoch.y_classes) = 2
    /\ epoch.valS = <<1, 2>>
    /\ epoch.y_classes[1][2] = 0
    /\ epoch.truth[1][2] = 0
    /\ gold_ents # <<>>
    /\ pred_ents # <<>>

\* C17: the lookups self.reverse_tag_vocab[truth[i,j]] and
\* self.reverse_tag_vocab[y_classes[i,j]] never raise KeyError, for every class
\* 0..len(tag_vocab) the argmax can give inside the true length.
C17_LookupNeverFails == epoch.pc # "KeyError"

(* ------------------- claims about the emitted chunks ------------------ *)
\* The tag splits on "-" into exactly two parts, the first of them "B".
ParsesAsB(tag) == Len(split(tag)) = 2 /\ split(tag)[1] = <<"B">>

\* The positions of the tokens whose tag parses as B-<category>.
BPositions(D) == {q \in Positions(D) : ParsesAsB(TagAt(D, q))}

\* C18: get_entities emits exactly one chunk for each token whose tag parses as
\* B-<category>, starting at that token with that token's category, and no other
\* chunk; chunks of one sentence have disjoint ranges, the list holds no
\* duplicate, and the chunk set has as many members as there are such tokens.
C18_OnePerB ==
    Done =>
        LET G == ToSet(gold_ents)
            BT == BPositions(gold_sequences)
        IN /\ \A q \in BT :
                  /\ Cardinality({c \in G : c[1] = q[1] /\ c[2] = q[2]}) = 1
                  /\ \A c \in G :
                         (c[1] = q[1] /\ c[2] = q[2]) =>
                             c[4] = split(TagAt(gold_sequences, q))[2]
           /\ \A c \in G : <<c[1], c[2]>> \in BT
           /\ \A c \in G : \A d \in G :
                  (c # d /\ c[1] = d[1]) => (c[3] < d[2] \/ d[3] < c[2])
           /\ \A i \in 1..Len(gold_ents) : \A j \in 1..Len(gold_ents) :
                  gold_ents[i] = gold_ents[j] => i = j
           /\ Cardinality(G) = Cardinality(BT)

\* A PER chunk and an ORG chunk were emitted from a Dataset of two B tokens and
\* a B-geo-loc token, which does not parse as B-<category>.
C18_Witness ==
    /\ Done
    /\ Cardinality(BPositions(gold_sequences)) = 2
    /\ \E q \in Positions(gold_sequences) : TagAt(gold_sequences, q) = B(GEO_LOC)
    /\ \E c \in ToSet(gold_ents) : c[4] = PER
    /\ \E c \in ToSet(gold_ents) : c[4] = ORG

====
